---- MODULE Spec2Model ----
(***************************************************************************)
(* Model of scripts/generate_badges.py (NimLisp badge generator).          *)
(*                                                                         *)
(* The script is one sequential run of main(): generate_badges (version,   *)
(* build, tests, coverage), save_badge_data, update_readme.  Python        *)
(* strings are TLA+ strings; str methods and the regular expressions of    *)
(* the script are operators that walk the string character by character.   *)
(* The outside world (files, external commands' exit codes and output) is  *)
(* the record env, chosen by Init and never changed; what the run writes   *)
(* is in disk.                                                             *)
(***************************************************************************)
EXTENDS Integers, Sequences, FiniteSets, TLC

VARIABLES
    pc,            \* position of main(): the step that runs next
    env,           \* the outside world the run reads (files, command outcomes)
    badges,        \* generate_badges: the dict badges, name -> URL
    build,         \* generate_build_status: its result and the file it checked
    test_results,  \* run_tests: the dict test_results
    est,           \* estimate_coverage_fallback: its counters, once called
    coverage,      \* calculate_coverage: the returned percentage, a fraction
    disk,          \* what the run has written: README.md and badges/data.json
    exit_code,     \* the process's exit status once main() has ended
    call           \* a direct call of create_badge_url: arguments and results

vars == <<pc, env, badges, build, test_results, est, coverage, disk, exit_code, call>>

----------------------------------------------------------------------------
(* Bounds of the model.                                                    *)

\* longest label drawn for a direct create_badge_url call
MaxLabelLen == 2
\* longest message drawn for a direct create_badge_url call
MaxMessageLen == 3
\* most lines of test-runner output drawn
MaxLines == 2
\* most "block:" lines in the drawn test file
MaxBlocks == 5
\* most proc declarations, and most func declarations, in the drawn source file
MaxDecls == 3
\* most pieces a drawn README is made of
MaxPieces == 3

----------------------------------------------------------------------------
(* Python str operations.                                                  *)

Char(s, i) == SubSeq(s, i, i)

StartsWithAt(s, i, p) ==
    /\ i >= 1
    /\ i + Len(p) - 1 <= Len(s)
    /\ SubSeq(s, i, i + Len(p) - 1) = p

\* str.startswith
StartsWith(s, p) == StartsWithAt(s, 1, p)

\* p in s
StrContains(s, p) == \E i \in 1..(Len(s) - Len(p) + 1) : StartsWithAt(s, i, p)

\* the least element of a nonempty set of integers
Least(S) == CHOOSE x \in S : \A y \in S : x <= y

\* s.find(p, i), 1-based; 0 when p does not occur from i on
FindFrom(s, p, i) ==
    LET hits == {j \in i..(Len(s) - Len(p) + 1) : StartsWithAt(s, j, p)}
    IN  IF hits = {} THEN 0 ELSE Least(hits)

\* str.replace(old, new) from position i on: leftmost occurrences, not overlapping
RECURSIVE StrReplaceFrom(_, _, _, _)
StrReplaceFrom(s, old, new, i) ==
    LET j == FindFrom(s, old, i)
    IN  IF j = 0 THEN SubSeq(s, i, Len(s))
        ELSE SubSeq(s, i, j - 1) \o new \o StrReplaceFrom(s, old, new, j + Len(old))

StrReplace(s, old, new) == StrReplaceFrom(s, old, new, 1)

\* str.split(sep): the sequence of the parts
RECURSIVE SplitFrom(_, _, _)
SplitFrom(s, sep, i) ==
    LET j == FindFrom(s, sep, i)
    IN  IF j = 0 THEN <<SubSeq(s, i, Len(s))>>
        ELSE <<SubSeq(s, i, j - 1)>> \o SplitFrom(s, sep, j + Len(sep))

Split(s, sep) == SplitFrom(s, sep, 1)

\* str.lower() on the ASCII letters
LowerChar(c) ==
    CASE c = "A" -> "a" [] c = "B" -> "b" [] c = "C" -> "c" [] c = "D" -> "d"
      [] c = "E" -> "e" [] c = "F" -> "f" [] c = "G" -> "g" [] c = "H" -> "h"
      [] c = "I" -> "i" [] c = "J" -> "j" [] c = "K" -> "k" [] c = "L" -> "l"
      [] c = "M" -> "m" [] c = "N" -> "n" [] c = "O" -> "o" [] c = "P" -> "p"
      [] c = "Q" -> "q" [] c = "R" -> "r" [] c = "S" -> "s" [] c = "T" -> "t"
      [] c = "U" -> "u" [] c = "V" -> "v" [] c = "W" -> "w" [] c = "X" -> "x"
      [] c = "Y" -> "y" [] c = "Z" -> "z" [] OTHER -> c

RECURSIVE Lower(_)
Lower(s) == IF s = "" THEN "" ELSE LowerChar(Char(s, 1)) \o Lower(Tail(s))

(* Character classes of Python's re module, on ASCII.                      *)
Digits == {"0", "1", "2", "3", "4", "5", "6", "7", "8", "9"}

\* \d
IsDigit(c) == c \in Digits

\* \s
IsSpace(c) == c \in {" ", "\t", "\n", "\r", "\f"}

\* \w
IsWord(c) ==
    c \in Digits \cup {"_"} \cup
        {"a", "b", "c", "d", "e", "f", "g", "h", "i", "j", "k", "l", "m",
         "n", "o", "p", "q", "r", "s", "t", "u", "v", "w", "x", "y", "z",
         "A", "B", "C", "D", "E", "F", "G", "H", "I", "J", "K", "L", "M",
         "N", "O", "P", "Q", "R", "S", "T", "U", "V", "W", "X", "Y", "Z"}

\* the index after the longest run of \s from i on
SkipSpaces(s, i) == Least({k \in i..Len(s) : ~IsSpace(Char(s, k))} \cup {Len(s) + 1})

\* the index after the longest run of \w from i on
SkipWord(s, i) == Least({k \in i..Len(s) : ~IsWord(Char(s, k))} \cup {Len(s) + 1})

\* the index after the longest run of \d from i on
SkipDigits(s, i) == Least({k \in i..Len(s) : ~IsDigit(Char(s, k))} \cup {Len(s) + 1})

\* ^ under re.MULTILINE: the start of the string or just after a newline
AtLineStart(s, i) == i = 1 \/ (i > 1 /\ Char(s, i - 1) = "\n")

----------------------------------------------------------------------------
(* create_badge_url                                                        *)

\* the two replacements in the other order: " " first, then "%"
EscapeSpaceFirst(s) == StrReplace(StrReplace(s, " ", "%20"), "%", "%25")

\* the escaping of label and of message: "%" first, then " "
Escape(s) == StrReplace(StrReplace(s, "%", "%25"), " ", "%20")

create_badge_url(label, message, color) ==
    "https://img.shields.io/badge/" \o Escape(label) \o "-" \o Escape(message)
        \o "-" \o color \o ".svg"

----------------------------------------------------------------------------
(* A direct call of create_badge_url, and a second call on the escaped     *)
(* label and message of the first.                                         *)

\* the strings over the alphabet of at most n characters
RECURSIVE StringsUpTo(_, _)
StringsUpTo(alphabet, n) ==
    IF n = 0 THEN {""}
    ELSE LET shorter == StringsUpTo(alphabet, n - 1)
         IN  shorter \cup {s \o c : s \in shorter, c \in alphabet}

UrlAlphabet == {" ", "%", "2", "5"}

NoCall == [label |-> "", message |-> "", color |-> "", once |-> "", twice |-> ""]

\* the first call: create_badge_url(label, message, color)
EncodeOnce ==
    /\ pc = "url_start"
    /\ call' = [call EXCEPT !.once = create_badge_url(call.label, call.message, call.color)]
    /\ pc' = "url_once"
    /\ UNCHANGED <<env, badges, build, test_results, est, coverage, disk, exit_code>>

\* the second call, on the escaped label and message
EncodeAgain ==
    /\ pc = "url_once"
    /\ call' = [call EXCEPT !.twice =
                    create_badge_url(Escape(call.label), Escape(call.message), call.color)]
    /\ pc' = "url_twice"
    /\ UNCHANGED <<env, badges, build, test_results, est, coverage, disk, exit_code>>

----------------------------------------------------------------------------
(* get_project_version                                                     *)

\* re.search(r'version\s*=\s*"([^"]+)"', content) from index i on: group 1 of
\* the leftmost match, "" for None (group 1 is never empty)
RECURSIVE VersionSearchFrom(_, _)
VersionSearchFrom(content, i) ==
    LET p  == FindFrom(content, "version", i)
        eq == SkipSpaces(content, p + 7)
        q1 == SkipSpaces(content, eq + 1)
        q2 == FindFrom(content, "\"", q1 + 1)
    IN  IF p = 0 THEN ""
        ELSE IF /\ StartsWithAt(content, eq, "=")
                /\ StartsWithAt(content, q1, "\"")
                /\ q2 > q1 + 1
             THEN SubSeq(content, q1 + 1, q2 - 1)
        ELSE VersionSearchFrom(content, p + 1)

get_project_version(e) ==
    IF ~e.nimble.exists THEN "0.1.0"
    ELSE IF ~e.nimble.readable THEN "0.1.0"
    ELSE LET found == VersionSearchFrom(e.nimble.text, 1)
         IN  IF found # "" THEN found ELSE "0.1.0"

----------------------------------------------------------------------------
(* generate_build_status                                                   *)

\* list(Path(".").rglob("*.nim")): the .nim files of the tree
NimFiles(e) == DOMAIN e.tree

\* nim_files[0] is the first file the traversal meets: any of them
FirstCandidates(e) == IF NimFiles(e) = {} THEN {""} ELSE NimFiles(e)

\* run_command("nim check <file>") and the mapping of its exit code
NimCheck(e, file) ==
    [status |-> IF e.nim_check_exit = 0 THEN "passing" ELSE "failing",
     checked |-> file]

generate_build_status(e, first) ==
    IF "main.nim" \in NimFiles(e) THEN NimCheck(e, "main.nim")
    ELSE IF "src/main.nim" \in NimFiles(e) THEN NimCheck(e, "src/main.nim")
    ELSE IF NimFiles(e) # {} /\ ~(\E f \in NimFiles(e) : StrContains(f, "test"))
         THEN NimCheck(e, first)
    ELSE [status |-> "no source", checked |-> ""]

build_color(status) ==
    IF status = "passing" THEN "brightgreen"
    ELSE IF status = "no source" THEN "lightgrey"
    ELSE "red"

----------------------------------------------------------------------------
(* run_tests                                                               *)

ESC == ""

\* re.sub(r'\x1b\[[0-9;]*m', '', line) from index i on
RECURSIVE StripAnsiFrom(_, _)
StripAnsiFrom(line, i) ==
    LET p == FindFrom(line, ESC \o "[", i)
        q == IF p = 0 THEN 0
             ELSE CHOOSE k \in (p + 2)..(Len(line) + 1) :
                    /\ \A j \in (p + 2)..(k - 1) : Char(line, j) \in Digits \cup {";"}
                    /\ (k > Len(line) \/ Char(line, k) \notin Digits \cup {";"})
    IN  IF p = 0 THEN SubSeq(line, i, Len(line))
        ELSE IF StartsWithAt(line, q, "m")
             THEN SubSeq(line, i, p - 1) \o StripAnsiFrom(line, q + 1)
        ELSE SubSeq(line, i, p) \o StripAnsiFrom(line, p + 1)

StripAnsi(line) == StripAnsiFrom(line, 1)

\* line 81: a file-level pass
IsPassLine(clean_line) == StrContains(clean_line, "PASS:") /\ StrContains(clean_line, ".nim c")

\* line 83, reached only when line 81 is false: a file-level fail
IsFailLine(clean_line) == ~IsPassLine(clean_line) /\ StrContains(clean_line, "FAIL:")

\* the count without the anchor: "block:" anywhere in a line
CountBlocksAnywhere(content) ==
    Cardinality({i \in 1..Len(content) : StartsWithAt(content, i, "block:")})

\* len(re.findall(r'^block:', content, re.MULTILINE))
CountBlocks(content) ==
    Cardinality({i \in 1..Len(content) :
                    AtLineStart(content, i) /\ StartsWithAt(content, i, "block:")})

\* the name of a path: what follows its last "/"
RECURSIVE PathName(_)
PathName(path) ==
    LET j == FindFrom(path, "/", 1)
    IN  IF j = 0 THEN path ELSE PathName(SubSeq(path, j + 1, Len(path)))

\* Path("tests").glob("t_*.nim"): the files directly in tests/ named t_*.nim
TestsGlob(e) ==
    {f \in DOMAIN e.tree :
        /\ StartsWith(f, "tests/")
        /\ PathName(f) = SubSeq(f, 7, Len(f))
        /\ StartsWith(PathName(f), "t_")}

\* test_blocks += ... over the files of the set; a file whose read raises is
\* skipped (except Exception: continue)
RECURSIVE SumBlocks(_, _)
SumBlocks(e, files) ==
    IF files = {} THEN 0
    ELSE LET f == CHOOSE g \in files : TRUE
         IN  (IF e.tree[f].readable THEN CountBlocks(e.tree[f].text) ELSE 0)
                + SumBlocks(e, files \ {f})

NoTests == [status |-> "no tests", passed |-> 0, failed |-> 0, total |-> 0,
            test_functions |-> 0]

run_tests(e) ==
    IF e.testament.exit = 0
    THEN LET lines == Split(e.testament.stdout, "\n")
             passed_files == Cardinality({i \in 1..Len(lines) : IsPassLine(StripAnsi(lines[i]))})
             failed_files == Cardinality({i \in 1..Len(lines) : IsFailLine(StripAnsi(lines[i]))})
             test_blocks == SumBlocks(e, TestsGlob(e))
         IN  IF passed_files > 0 /\ failed_files = 0
             THEN [status |-> "passing", passed |-> test_blocks, failed |-> 0,
                   total |-> test_blocks, test_functions |-> test_blocks]
             ELSE IF failed_files > 0
             THEN [status |-> "failing", passed |-> 0, failed |-> test_blocks,
                   total |-> test_blocks, test_functions |-> test_blocks]
             ELSE NoTests
    ELSE [NoTests EXCEPT !.status = "failing"]

\* the message chosen by the status instead of by the total
test_message_by_status(r) ==
    IF r.status = "no tests" THEN "no tests"
    ELSE IF r.status = "failing"
         THEN ToString(r.total) \o " tests (" \o ToString(r.failed) \o " failed)"
    ELSE ToString(r.total) \o " tests"

\* generate_badges, lines 270-276
test_message(r) ==
    IF r.total > 0
    THEN IF r.status = "failing"
         THEN ToString(r.total) \o " tests (" \o ToString(r.failed) \o " failed)"
         ELSE ToString(r.total) \o " tests"
    ELSE "no tests"

\* generate_badges, line 278
test_color(r) ==
    IF r.status = "passing" THEN "brightgreen"
    ELSE IF r.status = "failing" THEN "red"
    ELSE "lightgrey"

----------------------------------------------------------------------------
(* Percentages.  A Python float is modelled by the exact fraction n/d      *)
(* (d > 0) it approximates.                                                *)

Frac(n, d) == [n |-> n, d |-> d]

FracEq(x, y) == x.n * y.d = y.n * x.d

FracLeq(x, y) == x.n * y.d <= y.n * x.d

\* f"{x:.1f}" for x >= 0: the nearest tenth, ties to the even tenth
Format1f(x) ==
    LET q == (10 * x.n) \div x.d
        r == (10 * x.n) % x.d
        tenths == IF 2 * r > x.d THEN q + 1
                  ELSE IF 2 * r = x.d THEN q + (q % 2)
                  ELSE q
    IN  ToString(tenths \div 10) \o "." \o ToString(tenths % 10)

\* int() of a string of digits
RECURSIVE ParseNat(_)
ParseNat(digits) ==
    IF digits = "" THEN 0
    ELSE 10 * ParseNat(SubSeq(digits, 1, Len(digits) - 1))
            + (FindFrom("0123456789", Char(digits, Len(digits)), 1) - 1)

\* 10 ** k
RECURSIVE Pow10(_)
Pow10(k) == IF k = 0 THEN 1 ELSE 10 * Pow10(k - 1)

\* float() of a string matched by \d+\.?\d*
ParseFloat(text) ==
    LET dot == FindFrom(text, ".", 1)
        whole == IF dot = 0 THEN text ELSE SubSeq(text, 1, dot - 1)
        fraction == IF dot = 0 THEN "" ELSE SubSeq(text, dot + 1, Len(text))
    IN  Frac(ParseNat(whole) * Pow10(Len(fraction)) + ParseNat(fraction),
             Pow10(Len(fraction)))

----------------------------------------------------------------------------
(* estimate_coverage_fallback                                              *)

\* one match of r'^\s*<keyword>\s+\w+' (re.MULTILINE) starting at index i: the
\* index after the match, 0 when there is none at i
DeclMatchEnd(content, keyword, i) ==
    LET k  == SkipSpaces(content, i)
        s1 == k + Len(keyword)
        w  == SkipSpaces(content, s1)
    IN  IF /\ AtLineStart(content, i)
           /\ StartsWithAt(content, k, keyword)
           /\ w > s1
           /\ w <= Len(content)
           /\ IsWord(Char(content, w))
        THEN SkipWord(content, w)
        ELSE 0

\* len(re.findall(r'^\s*<keyword>\s+\w+', content, re.MULTILINE)) from index i
\* on: the matches are found left to right and do not overlap; one can start
\* only where ^ matches
RECURSIVE CountDeclsFrom(_, _, _)
CountDeclsFrom(content, keyword, i) ==
    LET starts == {j \in i..Len(content) : AtLineStart(content, j)}
        at == IF starts = {} THEN 0 ELSE Least(starts)
        end == IF at = 0 THEN 0 ELSE DeclMatchEnd(content, keyword, at)
    IN  IF at = 0 THEN 0
        ELSE IF end # 0 THEN 1 + CountDeclsFrom(content, keyword, end)
        ELSE CountDeclsFrom(content, keyword, at + 1)

CountDecls(content) == CountDeclsFrom(content, "proc", 1) + CountDeclsFrom(content, "func", 1)

\* src_functions += ... over the files of the set; a file whose read raises is
\* skipped (except Exception: continue)
RECURSIVE SumDecls(_, _)
SumDecls(e, files) ==
    IF files = {} THEN 0
    ELSE LET f == CHOOSE g \in files : TRUE
         IN  (IF e.tree[f].readable THEN CountDecls(e.tree[f].text) ELSE 0)
                + SumDecls(e, files \ {f})

\* nim_file.is_relative_to(Path("tests"))
InTests(path) == StartsWith(path, "tests/")

\* line 217: the files counted as tests
FallbackTestFiles(e) ==
    {f \in DOMAIN e.tree : InTests(f) /\ StartsWith(PathName(f), "t_")}

\* line 223: the files counted as sources
FallbackSourceFiles(e) ==
    {f \in DOMAIN e.tree :
        /\ ~(InTests(f) /\ StartsWith(PathName(f), "t_"))
        /\ ~(InTests(f) \/ StrContains(Lower(PathName(f)), "test"))}

\* the counters of estimate_coverage_fallback after its loop
FallbackCounts(e) ==
    [called |-> TRUE,
     src_functions |-> SumDecls(e, FallbackSourceFiles(e)),
     test_blocks |-> SumBlocks(e, FallbackTestFiles(e))]

NotCalled == [called |-> FALSE, src_functions |-> 0, test_blocks |-> 0]

\* the estimate without the cap
EstimateUncapped(c) ==
    IF c.src_functions = 0 THEN Frac(0, 1)
    ELSE Frac(c.test_blocks * 85, c.src_functions)

\* lines 232-240: the estimate from the counters; ratio * 85 is the fraction
\* test_blocks * 85 / src_functions
Estimate(c) ==
    IF c.src_functions = 0 THEN Frac(0, 1)
    ELSE LET scaled == Frac(c.test_blocks * 85, c.src_functions)
         IN  IF FracLeq(scaled, Frac(95, 1)) THEN scaled ELSE Frac(95, 1)

estimate_coverage_fallback(e) == Estimate(FallbackCounts(e))

----------------------------------------------------------------------------
(* calculate_coverage                                                      *)

\* one match of r'(\d+\.?\d*)%' starting at index i: the index of its "%",
\* 0 when there is none at i
PercentMatchEnd(line, i) ==
    LET a == SkipDigits(line, i)
        b == IF StartsWithAt(line, a, ".") THEN a + 1 ELSE a
        c == SkipDigits(line, b)
    IN  IF a > i /\ StartsWithAt(line, c, "%") THEN c ELSE 0

\* re.search(r'(\d+\.?\d*)%', line): group 1 of the leftmost match, "" for None
PercentSearch(line) ==
    LET hits == {i \in 1..Len(line) : PercentMatchEnd(line, i) # 0}
    IN  IF hits = {} THEN ""
        ELSE SubSeq(line, Least(hits), PercentMatchEnd(line, Least(hits)) - 1)

\* lines 176-186: the loop over the lines of lcov --summary's output, from
\* line k on; 0.0 when no line gives a percentage
RECURSIVE SummaryPercentageFrom(_, _)
SummaryPercentageFrom(lines, k) ==
    IF k > Len(lines) THEN Frac(0, 1)
    ELSE IF /\ StrContains(lines[k], "lines......:")
            /\ PercentSearch(lines[k]) # ""
         THEN ParseFloat(PercentSearch(lines[k]))
    ELSE SummaryPercentageFrom(lines, k + 1)

\* lines 161-163: whether the capture succeeded
coverage_captured(e) == e.lcov.capture_exit = 0 /\ e.lcov.info_exists

\* lines 174-186: the percentage of the instrumented path
coverage_percentage(e) ==
    IF e.lcov.summary_exit = 0
    THEN SummaryPercentageFrom(Split(e.lcov.summary_out, "\n"), 1)
    ELSE Frac(0, 1)

\* the variant that also falls back when the summary step fails
calculate_coverage_strict(e) ==
    IF e.lcov.which_exit # 0 \/ ~coverage_captured(e) \/ e.lcov.summary_exit # 0
    THEN [value |-> estimate_coverage_fallback(e), counts |-> FallbackCounts(e)]
    ELSE [value |-> coverage_percentage(e), counts |-> NotCalled]

\* the returned percentage, and the counters of estimate_coverage_fallback
\* when it was called.  The commands between (cleaning, compiling and running
\* the tests, genhtml, the removal of the intermediate files) decide nothing
\* of the result: their exit codes are ignored or only printed.
calculate_coverage(e) ==
    IF e.lcov.which_exit # 0
    THEN [value |-> estimate_coverage_fallback(e), counts |-> FallbackCounts(e)]
    ELSE IF ~coverage_captured(e)
    THEN [value |-> estimate_coverage_fallback(e), counts |-> FallbackCounts(e)]
    ELSE [value |-> coverage_percentage(e), counts |-> NotCalled]

\* generate_badges, line 283
coverage_color(c) ==
    IF FracLeq(Frac(90, 1), c) THEN "brightgreen"
    ELSE IF FracLeq(Frac(70, 1), c) THEN "yellow"
    ELSE "red"

----------------------------------------------------------------------------
(* update_readme                                                           *)

\* the rest of r'\[!\[<category>\].*?\]\([^)]*\)' after its prefix, from index
\* j on: the index after the match, 0 when there is none.  ".*?" takes as few
\* characters as it can, none of them a newline; "[^)]*" runs to the first ")"
LazyMatchEnd(content, j) ==
    LET newline == FindFrom(content, "\n", j)
        limit == IF newline = 0 THEN Len(content) + 1 ELSE newline
        hits == {k \in j..(limit - 1) :
                    StartsWithAt(content, k, "](") /\ FindFrom(content, ")", k + 2) # 0}
    IN  IF hits = {} THEN 0 ELSE FindFrom(content, ")", Least(hits) + 2) + 1

\* re.sub(pattern, replacement, content) from index i on, the pattern being
\* that of the category with the given prefix: every match, left to right
RECURSIVE ReSubFrom(_, _, _, _)
ReSubFrom(content, prefix, replacement, i) ==
    LET p == FindFrom(content, prefix, i)
        end == IF p = 0 THEN 0 ELSE LazyMatchEnd(content, p + Len(prefix))
    IN  IF p = 0 THEN SubSeq(content, i, Len(content))
        ELSE IF end # 0
             THEN SubSeq(content, i, p - 1) \o replacement
                    \o ReSubFrom(content, prefix, replacement, end)
        ELSE SubSeq(content, i, p) \o ReSubFrom(content, prefix, replacement, p + 1)

\* re.sub with count=1, from index i on: the leftmost match only
RECURSIVE ReSubFirstFrom(_, _, _, _)
ReSubFirstFrom(content, prefix, replacement, i) ==
    LET p == FindFrom(content, prefix, i)
        end == IF p = 0 THEN 0 ELSE LazyMatchEnd(content, p + Len(prefix))
    IN  IF p = 0 THEN SubSeq(content, i, Len(content))
        ELSE IF end # 0
             THEN SubSeq(content, i, p - 1) \o replacement
                    \o SubSeq(content, end, Len(content))
        ELSE SubSeq(content, i, p) \o ReSubFirstFrom(content, prefix, replacement, p + 1)

\* the replacement of one category with count=1
ReSubFirst(content, category, url) ==
    ReSubFirstFrom(content, "[![" \o category \o "]",
                   "[![" \o category \o "](" \o url \o ")](#)", 1)

\* one pass of the loop of lines 305-306.  The replacement is a template to
\* re.sub; the badge URLs hold no backslash, so it is inserted as it is.
ReSub(content, category, url) ==
    ReSubFrom(content, "[![" \o category \o "]",
              "[![" \o category \o "](" \o url \o ")](#)", 1)

\* lines 298-306: the four replacements, in the order of the list
NewReadme(content, b) ==
    ReSub(ReSub(ReSub(ReSub(content,
        "Build Status", b["build"]),
        "Test Coverage", b["coverage"]),
        "Tests", b["tests"]),
        "Version", b["version"])

----------------------------------------------------------------------------
(* main: generate_badges, save_badge_data, update_readme.                  *)

\* str.strip() of the date command's output
RECURSIVE Strip(_)
Strip(s) ==
    IF s # "" /\ IsSpace(Char(s, 1)) THEN Strip(Tail(s))
    ELSE IF s # "" /\ IsSpace(Char(s, Len(s))) THEN Strip(SubSeq(s, 1, Len(s) - 1))
    ELSE s

NoData == [written |-> FALSE, generated_at |-> "", badges |-> <<>>]

\* lines 254-255
VersionStep ==
    /\ pc = "version"
    /\ badges' = ("version" :> create_badge_url("version", "v" \o get_project_version(env), "blue"))
    /\ pc' = "build"
    /\ UNCHANGED <<env, build, test_results, est, coverage, disk, exit_code, call>>

\* lines 258-265
BuildStep ==
    /\ pc = "build"
    /\ \E first \in FirstCandidates(env) :
        build' = generate_build_status(env, first)
    /\ badges' = badges @@
        ("build" :> create_badge_url("build", build'.status, build_color(build'.status)))
    /\ pc' = "tests"
    /\ UNCHANGED <<env, test_results, est, coverage, disk, exit_code, call>>

\* lines 268-279
TestsStep ==
    /\ pc = "tests"
    /\ test_results' = run_tests(env)
    /\ badges' = badges @@
        ("tests" :> create_badge_url("tests", test_message(test_results'),
                                     test_color(test_results')))
    /\ pc' = "coverage"
    /\ UNCHANGED <<env, build, est, coverage, disk, exit_code, call>>

\* lines 282-286
CoverageStep ==
    /\ pc = "coverage"
    /\ LET result == calculate_coverage(env)
       IN  coverage' = result.value /\ est' = result.counts
    /\ badges' = badges @@
        ("coverage" :> create_badge_url("coverage", Format1f(coverage') \o "%",
                                        coverage_color(coverage')))
    /\ pc' = "save"
    /\ UNCHANGED <<env, build, test_results, disk, exit_code, call>>

\* the variant whose date failure is swallowed
SaveRaisesNoDate(e) == ~e.data_writable

\* whether save_badge_data raises: check_output raises on a nonzero exit of
\* date, mkdir and open raise when badges/data.json cannot be written
SaveRaises(e) == e.date.exit # 0 \/ ~e.data_writable

\* save_badge_data, and main's handler (lines 339-341) when it raises
SaveStep ==
    /\ pc = "save"
    /\ IF SaveRaises(env)
       THEN /\ exit_code' = 1
            /\ pc' = "done"
            /\ UNCHANGED disk
       ELSE /\ disk' = [disk EXCEPT !.data_json =
                            [written |-> TRUE,
                             generated_at |-> Strip(env.date.stdout),
                             badges |-> badges]]
            /\ pc' = "readme"
            /\ UNCHANGED exit_code
    /\ UNCHANGED <<env, badges, build, test_results, est, coverage, call>>

\* whether update_readme raises: read_text or write_text fails on a README.md
\* that exists
ReadmeRaises(e) == e.readme.exists /\ (~e.readme.readable \/ ~e.readme.writable)

\* update_readme, the rest of main, and main's handler when it raises
ReadmeStep ==
    /\ pc = "readme"
    /\ IF ~env.readme.exists
       THEN exit_code' = 0 /\ UNCHANGED disk
       ELSE IF ReadmeRaises(env)
       THEN exit_code' = 1 /\ UNCHANGED disk
       ELSE /\ exit_code' = 0
            /\ disk' = [disk EXCEPT !.readme = NewReadme(env.readme.text, badges)]
    /\ pc' = "done"
    /\ UNCHANGED <<env, badges, build, test_results, est, coverage, call>>

Next == VersionStep \/ BuildStep \/ TestsStep \/ CoverageStep \/ SaveStep \/ ReadmeStep

\* the state in which main() is entered, in the world e
Start(e) ==
    /\ pc = "version"
    /\ env = e
    /\ badges = <<>>
    /\ build = [status |-> "", checked |-> ""]
    /\ test_results = NoTests
    /\ est = NotCalled
    /\ coverage = Frac(0, 1)
    /\ disk = [readme |-> IF e.readme.exists THEN e.readme.text ELSE "",
               data_json |-> NoData]
    /\ exit_code = -1
    /\ call = NoCall

----------------------------------------------------------------------------
(* The worlds the runs are checked in.                                     *)

RECURSIVE Repeat(_, _)
Repeat(s, k) == IF k = 0 THEN "" ELSE s \o Repeat(s, k - 1)

\* a test file with k top-level blocks, a nested block and a comment
TestFileText(k) ==
    "import ../src/lisp\n# block: a comment\nwhen true:\n  block:\n    discard\n"
        \o Repeat("block:\n  doAssert true\n", k)

\* a source file with p proc and f func declarations, and lines that are none
SourceText(p, f) ==
    "# proc in a comment\nprocedure\n"
        \o Repeat("proc run(x: int): int =\n  x\n", p)
        \o Repeat("  func id*(y: int): int = y\n", f)

File(text) == [readable |-> TRUE, text |-> text]

Unreadable == [readable |-> FALSE, text |-> ""]

\* the tree with one source file (p procs, f funcs) and one test file (k blocks)
Tree(k, p, f) ==
    ("src/lisp.nim" :> File(SourceText(p, f))) @@ ("tests/t_eval.nim" :> File(TestFileText(k)))

PassLine ==
    ESC \o "[1m" \o ESC \o "[32mPASS: " \o ESC \o "[0mtests/t_eval.nim c (0.42 sec)"

FailLine == ESC \o "[1m" \o ESC \o "[31mFAIL: " \o ESC \o "[0mtests/t_eval.nim c"

\* a world in which every step succeeds: 4 test blocks, 5 source functions,
\* lcov absent
BaseEnv ==
    [nimble |-> [exists |-> TRUE, readable |-> TRUE,
                 text |-> "# Package\nversion       = \"0.2.0\"\nauthor = \"a\"\n"],
     tree |-> Tree(4, 2, 3),
     nim_check_exit |-> 0,
     testament |-> [exit |-> 0, stdout |-> PassLine \o "\n"],
     lcov |-> [which_exit |-> 1, capture_exit |-> 0, info_exists |-> TRUE,
               extract_exit |-> 0, summary_exit |-> 0,
               summary_out |-> "Reading tracefile coverage_src.info\n  lines......: 85.5% (123 of 144 lines)\n"],
     date |-> [exit |-> 0, stdout |-> "2025-01-01T00:00:00+00:00\n"],
     data_writable |-> TRUE,
     readme |-> [exists |-> TRUE, readable |-> TRUE, writable |-> TRUE,
                 text |-> "# NimLisp\n[![Tests](old-url)](#)\n"]]

(* Whole runs under failures of the steps: the manifest, the compile check, *)
(* the test runner, a test file's read, lcov, date, the outputs' writes    *)
(* and README.md.                                                          *)

NimbleWorlds ==
    {[exists |-> FALSE, readable |-> FALSE, text |-> ""],
     [exists |-> TRUE, readable |-> FALSE, text |-> ""],
     [exists |-> TRUE, readable |-> TRUE, text |-> "name = \"nimlisp\"\nversion = \"\"\n"],
     BaseEnv.nimble}

\* the compile check: no entry file, or main.nim and the exit code of nim check
BuildWorlds ==
    {[tree |-> <<>>, nim_check_exit |-> 0],
     [tree |-> ("main.nim" :> File(SourceText(1, 0))), nim_check_exit |-> 0],
     [tree |-> ("main.nim" :> File(SourceText(1, 0))), nim_check_exit |-> 1]}

LcovWorlds ==
    {BaseEnv.lcov,
     [BaseEnv.lcov EXCEPT !.which_exit = 0, !.capture_exit = 1],
     [BaseEnv.lcov EXCEPT !.which_exit = 0, !.summary_exit = 1],
     [BaseEnv.lcov EXCEPT !.which_exit = 0]}

ReadmeWorlds ==
    {[BaseEnv.readme EXCEPT !.exists = FALSE],
     [BaseEnv.readme EXCEPT !.readable = FALSE],
     [BaseEnv.readme EXCEPT !.writable = FALSE],
     BaseEnv.readme}

MainWorlds ==
    {[BaseEnv EXCEPT !.nimble = nimble,
                     !.tree = b.tree @@ Tree(4, 2, 3) @@ ("tests/t_parse.nim" :> t),
                     !.nim_check_exit = b.nim_check_exit,
                     !.testament = [BaseEnv.testament EXCEPT !.exit = texit],
                     !.lcov = lcov,
                     !.date = [BaseEnv.date EXCEPT !.exit = dexit],
                     !.data_writable = dw,
                     !.readme = readme] :
        nimble \in NimbleWorlds, b \in BuildWorlds, t \in {File(TestFileText(1)), Unreadable},
        texit \in {0, 1}, lcov \in LcovWorlds, dexit \in {0, 1}, dw \in BOOLEAN,
        readme \in ReadmeWorlds}

Init == \E e \in MainWorlds : Start(e)

Spec == Init /\ [][Next]_vars

(* run_tests under the outputs of the test runner.                         *)

TestLines ==
    {PassLine,
     FailLine,
     "PASS: tests/t_eval.nim js",
     "FAIL: tests/t_eval.nim c (expected PASS: 3)",
     "SKIP: tests/t_eval.nim c"}

\* the outputs of at most n lines, each ended by a newline
RunnerOutputs(n) == StringsUpTo({line \o "\n" : line \in TestLines}, n)

\* the tree of the test files: k blocks in tests/t_eval.nim, a second test file
\* (one block, or a read that raises) and one below tests/ that the glob of
\* run_tests does not reach
TestsTree(k, t) ==
    Tree(k, 2, 3) @@ ("tests/t_parse.nim" :> t)
                  @@ ("tests/deep/t_more.nim" :> File(TestFileText(1)))

TestsWorlds ==
    {[BaseEnv EXCEPT !.testament = [exit |-> texit, stdout |-> out],
                     !.tree = TestsTree(k, File(TestFileText(1)))] :
        texit \in {0, 1}, out \in RunnerOutputs(MaxLines), k \in {0, MaxBlocks}}
    \cup
    {[BaseEnv EXCEPT !.testament = [exit |-> texit, stdout |-> out],
                     !.tree = TestsTree(k, t)] :
        texit \in {0, 1}, out \in RunnerOutputs(1), k \in 0..MaxBlocks,
        t \in {File(TestFileText(0)), Unreadable}}

InitTests == \E e \in TestsWorlds : Start(e)

SpecTests == InitTests /\ [][Next]_vars

(* generate_build_status under the trees of .nim files.                    *)

BuildPaths ==
    {"main.nim", "src/main.nim", "src/lisp.nim", "src/latest.nim", "tests/t_eval.nim"}

BuildTreeWorlds ==
    {[BaseEnv EXCEPT !.tree = [f \in paths |-> File(SourceText(1, 1))],
                     !.nim_check_exit = x] :
        paths \in SUBSET BuildPaths, x \in {0, 1}}

InitBuild == \E e \in BuildTreeWorlds : Start(e)

SpecBuild == InitBuild /\ [][Next]_vars

(* calculate_coverage under the outcomes of lcov and the counts of the     *)
(* tree.                                                                   *)

SummaryOutputs ==
    {BaseEnv.lcov.summary_out,
     "  lines......: no data found\n  functions..: 70.0% (7 of 10 functions)\n",
     "Summary coverage rate:\n  lines......: 100.0% (12 of 12 lines)\n",
     ""}

LcovOutcomes ==
    {[which_exit |-> w, capture_exit |-> c, info_exists |-> i, extract_exit |-> x,
      summary_exit |-> s, summary_out |-> out] :
        w \in {0, 1}, c \in {0, 1}, i \in BOOLEAN, x \in {0, 1}, s \in {0, 1},
        out \in SummaryOutputs}

\* the tree of the counts, with files that neither count of the fallback reads
CountedTree(k, p, f) ==
    Tree(k, p, f) @@ ("tests/helper.nim" :> File("proc help() = discard\nblock:\n"))
                  @@ ("src/test_util.nim" :> File("proc util() = discard\nblock:\n"))

CoverageWorlds ==
    {[BaseEnv EXCEPT !.tree = CountedTree(k, p, f), !.lcov = lcov] :
        k \in 0..MaxBlocks, p \in 0..MaxDecls, f \in 0..MaxDecls,
        lcov \in {BaseEnv.lcov, [BaseEnv.lcov EXCEPT !.which_exit = 0, !.info_exists = FALSE]}}
    \cup
    {[BaseEnv EXCEPT !.tree = CountedTree(k, 2, 3), !.lcov = lcov] :
        k \in {0, 4}, lcov \in LcovOutcomes}

InitCoverage == \E e \in CoverageWorlds : Start(e)

SpecCoverage == InitCoverage /\ [][Next]_vars

(* update_readme under the contents of README.md.                          *)

ReadmePieces ==
    {"[![Tests](old-url)](#)",
     "[![Version](v1.svg)](https://example.org/releases)",
     "[![Build Status](b.svg)](#)",
     "[![Test Coverage](c.svg)](#)",
     "[![Tests](old-url)][ci]",
     "# NimLisp\n",
     " "}

ReadmeContentWorlds ==
    {[BaseEnv EXCEPT !.readme = [BaseEnv.readme EXCEPT !.text = text]] :
        text \in StringsUpTo(ReadmePieces, MaxPieces)}

InitReadme == \E e \in ReadmeContentWorlds : Start(e)

SpecReadme == InitReadme /\ [][Next]_vars

(* Direct calls of create_badge_url.                                       *)

InitUrl ==
    /\ pc = "url_start"
    /\ env = BaseEnv
    /\ badges = <<>>
    /\ build = [status |-> "", checked |-> ""]
    /\ test_results = NoTests
    /\ est = NotCalled
    /\ coverage = Frac(0, 1)
    /\ disk = [readme |-> BaseEnv.readme.text, data_json |-> NoData]
    /\ exit_code = -1
    /\ \E label \in StringsUpTo(UrlAlphabet, MaxLabelLen),
          message \in StringsUpTo(UrlAlphabet, MaxMessageLen) :
        call = [label |-> label, message |-> message, color |-> "blue",
                once |-> "", twice |-> ""]

NextUrl == EncodeOnce \/ EncodeAgain

SpecUrl == InitUrl /\ [][NextUrl]_vars

----------------------------------------------------------------------------
(* Positions of main() that the properties speak of.                       *)

BuildDone == pc \in {"tests", "coverage", "save", "readme", "done"}

TestsDone == pc \in {"coverage", "save", "readme", "done"}

CoverageDone == pc \in {"save", "readme", "done"}

\* update_readme has rewritten README.md
ReadmeUpdated == pc = "done" /\ exit_code = 0 /\ env.readme.exists

----------------------------------------------------------------------------
(* Properties of run_tests (SpecTests).                                    *)

\* the lines of the runner's output, ANSI colour codes removed
CleanLines == LET lines == Split(env.testament.stdout, "\n")
              IN  [i \in 1..Len(lines) |-> StripAnsi(lines[i])]

\* N: the lines carrying the pass marker and the compile-unit marker
PassMarkerLines ==
    {i \in 1..Len(CleanLines) :
        StrContains(CleanLines[i], "PASS:") /\ StrContains(CleanLines[i], ".nim c")}

\* the lines carrying the fail marker
FailMarkerLines == {i \in 1..Len(CleanLines) : StrContains(CleanLines[i], "FAIL:")}

\* the lines of a text that start with "block:"
BlockLines(text) ==
    LET lines == Split(text, "\n")
    IN  Cardinality({i \in 1..Len(lines) : StartsWith(lines[i], "block:")})

\* M: the test blocks of the readable files tests/t_*.nim
RECURSIVE DetectedBlocks(_)
DetectedBlocks(files) ==
    IF files = {} THEN 0
    ELSE LET f == CHOOSE g \in files : TRUE
         IN  (IF env.tree[f].readable THEN BlockLines(env.tree[f].text) ELSE 0)
                + DetectedBlocks(files \ {f})

\* the test source files: tests/t_*.nim
TestFiles ==
    {f \in DOMAIN env.tree :
        LET parts == Split(f, "/")
        IN  Len(parts) = 2 /\ parts[1] = "tests" /\ StartsWith(parts[2], "t_")}

AllPassed(m) ==
    /\ test_results.status = "passing"
    /\ test_results.total = m
    /\ test_results.passed = m
    /\ test_results.test_functions = m
    /\ test_results.failed = 0

\* C1 (as claimed): whenever the runner's output has at least one line with
\* the fail marker "FAIL:", run_tests returns status "failing" and passed = 0,
\* whatever else the lines contain.
C1_FailMarkerMeansFailing ==
    (TestsDone /\ FailMarkerLines # {})
        => (test_results.status = "failing" /\ test_results.passed = 0)

\* C2 (as claimed): N >= 1 pass-marker lines and no fail-marker line give status
\* "passing" with total = passed = test_functions = M and failed = 0, for every
\* output of the runner.
C2_PassingWhateverExit ==
    (TestsDone /\ PassMarkerLines # {} /\ FailMarkerLines = {})
        => AllPassed(DetectedBlocks(TestFiles))

\* C2 (amended): when the runner exits with code 0, N >= 1 pass-marker lines and
\* no fail-marker line give status "passing" with total = passed =
\* test_functions = M and failed = 0.
C2_PassingOnExitZero ==
    (TestsDone /\ env.testament.exit = 0 /\ PassMarkerLines # {} /\ FailMarkerLines = {})
        => AllPassed(DetectedBlocks(TestFiles))

C2_Witness ==
    /\ TestsDone
    /\ env.testament.exit = 0
    /\ Cardinality(PassMarkerLines) = 2
    /\ FailMarkerLines = {}
    /\ DetectedBlocks(TestFiles) = MaxBlocks + 1
    /\ AllPassed(MaxBlocks + 1)

----------------------------------------------------------------------------
(* Properties of the tests badge (SpecTests).                              *)

TestsUrl(text, color) ==
    "https://img.shields.io/badge/tests-" \o text \o "-" \o color \o ".svg"

SaysNoTests == \E color \in {"brightgreen", "red", "lightgrey"} :
                    badges["tests"] = TestsUrl("no%20tests", color)

\* the badge states the positive number of tests n
SaysNumber(n) ==
    \/ badges["tests"] = TestsUrl(ToString(n) \o "%20tests", "brightgreen")
    \/ badges["tests"] =
        TestsUrl(ToString(n) \o "%20tests%20(" \o ToString(n) \o "%20failed)", "red")

\* C10 (as claimed): the tests badge says "no tests" exactly when the status is
\* "no tests" (and is then lightgrey); a status of "passing" or "failing" comes
\* with a message stating a positive number of tests.
C10_MessageFollowsStatus ==
    TestsDone =>
        /\ SaysNoTests <=> test_results.status = "no tests"
        /\ test_results.status = "no tests"
            => badges["tests"] = TestsUrl("no%20tests", "lightgrey")
        /\ test_results.status \in {"passing", "failing"}
            => test_results.total > 0 /\ SaysNumber(test_results.total)

\* C10 (amended): the badge says "no tests" exactly when total = 0, whatever
\* the status; its colour follows the status alone (brightgreen for "passing",
\* red for "failing", lightgrey for "no tests"); the status "no tests" comes
\* with total = 0; a total above 0 comes with status "passing" or "failing"
\* and a message stating that number.  So "failing" after a nonzero exit of
\* the runner, and "passing"/"failing" with no test block, show "no tests" in
\* red or brightgreen.
C10_MessageFollowsTotal ==
    TestsDone =>
        /\ SaysNoTests <=> test_results.total = 0
        /\ test_results.status = "no tests"
            => test_results.total = 0 /\ badges["tests"] = TestsUrl("no%20tests", "lightgrey")
        /\ (test_results.status = "passing" /\ test_results.total = 0)
            => badges["tests"] = TestsUrl("no%20tests", "brightgreen")
        /\ (test_results.status = "failing" /\ test_results.total = 0)
            => badges["tests"] = TestsUrl("no%20tests", "red")
        /\ test_results.total > 0
            => /\ test_results.status \in {"passing", "failing"}
               /\ SaysNumber(test_results.total)
               /\ test_results.status = "passing"
                    <=> badges["tests"] =
                            TestsUrl(ToString(test_results.total) \o "%20tests", "brightgreen")
        /\ env.testament.exit # 0
            => test_results.status = "failing" /\ test_results.total = 0

C10_Witness ==
    /\ TestsDone
    /\ env.testament.exit # 0
    /\ DetectedBlocks(TestFiles) > 0
    /\ test_results.status = "failing"
    /\ badges["tests"] = TestsUrl("no%20tests", "red")

----------------------------------------------------------------------------
(* Properties of generate_build_status (SpecBuild).                        *)

\* the .nim files without "test" in their path
NonTestFiles == {f \in DOMAIN env.tree : ~StrContains(f, "test")}

\* C3 (as claimed): with neither main.nim nor src/main.nim, the result is
\* "no source" only if no .nim file without "test" in its path exists; when one
\* exists, the compile check is run on a non-test file and the result is
\* "passing" (exit code 0) or "failing" (nonzero), never "no source".
C3_NonTestFileIsChecked ==
    (BuildDone /\ "main.nim" \notin DOMAIN env.tree /\ "src/main.nim" \notin DOMAIN env.tree)
        => IF NonTestFiles = {}
           THEN build.status = "no source"
           ELSE /\ build.checked \in NonTestFiles
                /\ build.status = IF env.nim_check_exit = 0 THEN "passing" ELSE "failing"

----------------------------------------------------------------------------
(* Properties of calculate_coverage and estimate_coverage_fallback         *)
(* (SpecCoverage).                                                         *)

\* the summary holds a line with the label and a percentage
PercentageFound ==
    LET lines == Split(env.lcov.summary_out, "\n")
    IN  \E k \in 1..Len(lines) :
            StrContains(lines[k], "lines......:") /\ PercentSearch(lines[k]) # ""

\* the value calculate_coverage returned is that of the fallback estimate
ReturnedFallback ==
    est.called /\ FracEq(coverage, estimate_coverage_fallback(env))

\* C4 (as claimed): with lcov present, a failure at any step of the capture
\* pipeline (capture, filtering, summarizing, finding the percentage) makes
\* calculate_coverage return the fallback estimate.
C4_AnyFailureFallsBack ==
    (/\ CoverageDone
     /\ env.lcov.which_exit = 0
     /\ \/ env.lcov.capture_exit # 0
        \/ ~env.lcov.info_exists
        \/ env.lcov.extract_exit # 0
        \/ env.lcov.summary_exit # 0
        \/ ~PercentageFound)
        => ReturnedFallback

\* C4 (amended): with lcov present, calculate_coverage returns the fallback
\* estimate exactly when the capture step fails (nonzero exit code, or no
\* coverage.info afterwards).  Once the capture succeeded the value is that of
\* the instrumented path: the exit code of the filtering step is ignored, and a
\* failed summary or a summary without a percentage gives 0.0.
C4_OnlyCaptureFallsBack ==
    (CoverageDone /\ env.lcov.which_exit = 0)
        => IF env.lcov.capture_exit # 0 \/ ~env.lcov.info_exists
           THEN ReturnedFallback
           ELSE /\ ~est.called
                /\ (env.lcov.summary_exit # 0 \/ ~PercentageFound) => coverage.n = 0
                /\ (env.lcov.summary_exit = 0 /\ env.lcov.summary_out = BaseEnv.lcov.summary_out)
                        => FracEq(coverage, Frac(855, 10))

C4_Witness ==
    /\ CoverageDone
    /\ env.lcov.which_exit = 0
    /\ env.lcov.capture_exit = 0
    /\ env.lcov.info_exists
    /\ env.lcov.summary_exit # 0
    /\ ~est.called
    /\ coverage.n = 0
    /\ FracEq(estimate_coverage_fallback(env), Frac(68, 1))

\* C8: the fallback estimate is 0.0 when src_functions = 0 and otherwise
\* min(test_blocks / src_functions * 85, 95.0); it lies in [0.0, 95.0]; 4 test
\* blocks and 5 source functions give 68.0, which the coverage badge colours
\* red.
C8_FallbackEstimate ==
    (CoverageDone /\ est.called) =>
        /\ est.src_functions = 0 => coverage.n = 0
        /\ est.src_functions > 0 =>
            IF est.test_blocks * 85 <= 95 * est.src_functions
            THEN coverage.n * est.src_functions = est.test_blocks * 85 * coverage.d
            ELSE coverage.n = 95 * coverage.d
        /\ coverage.d > 0
        /\ 0 <= coverage.n
        /\ coverage.n <= 95 * coverage.d
        /\ (est.test_blocks = 4 /\ est.src_functions = 5) =>
            /\ coverage.n = 68 * coverage.d
            /\ badges["coverage"] = "https://img.shields.io/badge/coverage-68.0%25-red.svg"

C8_Witness ==
    /\ CoverageDone
    /\ est.called
    /\ est.test_blocks = 4
    /\ est.src_functions = 5
    /\ coverage.n = 68 * coverage.d
    /\ badges["coverage"] = "https://img.shields.io/badge/coverage-68.0%25-red.svg"

----------------------------------------------------------------------------
(* Properties of a whole run of main (Spec).                               *)

AllBadges == DOMAIN badges = {"version", "build", "tests", "coverage"}

\* C5 (as claimed): a failure of any single file-read or external-process step
\* yields a default value rather than propagating, so the run still writes its
\* outputs and ends with exit code 0 (the outputs being writable).
C5_NoFailurePropagates ==
    (pc = "done" /\ env.data_writable /\ env.readme.writable)
        => /\ exit_code = 0
           /\ disk.data_json.written

\* C5 (amended): the failures that yield a value are those of the manifest's
\* read ("0.1.0"), of a test file's read (the file is skipped), and the nonzero
\* exit codes of the compile check ("failing"), of the test runner ("failing"
\* with zero counts) and of lcov (the fallback estimate, or 0.0); all four
\* badges are then built.  A failure of the date command, of README.md's read,
\* or of a write of badges/data.json or README.md is not wrapped: it reaches
\* the top-level handler and the run ends with exit code 1 - after a failed date
\* command without badges/data.json written.  Exit code 1 is reached in no
\* other way, and a missing README.md is not fatal.
C5_OnlyUnwrappedFailuresPropagate ==
    pc = "done" =>
        /\ AllBadges
        /\ exit_code \in {0, 1}
        /\ exit_code = 1 <=>
            \/ env.date.exit # 0
            \/ ~env.data_writable
            \/ env.readme.exists /\ (~env.readme.readable \/ ~env.readme.writable)
        /\ disk.data_json.written <=> (env.date.exit = 0 /\ env.data_writable)
        /\ (~env.nimble.exists \/ ~env.nimble.readable)
            => badges["version"] = "https://img.shields.io/badge/version-v0.1.0-blue.svg"
        /\ (build.checked # "" /\ env.nim_check_exit # 0) => build.status = "failing"
        /\ env.testament.exit # 0 => test_results = [NoTests EXCEPT !.status = "failing"]
        /\ env.lcov.which_exit # 0 => est.called
        /\ (~env.readme.exists /\ env.date.exit = 0 /\ env.data_writable) => exit_code = 0

C5_Witness ==
    /\ pc = "done"
    /\ exit_code = 1
    /\ env.date.exit # 0
    /\ env.data_writable
    /\ env.readme.exists /\ env.readme.readable /\ env.readme.writable
    /\ ~disk.data_json.written
    /\ AllBadges

----------------------------------------------------------------------------
(* Properties of update_readme (SpecReadme).                               *)

\* the README read as the sequence of the pieces it was made of, from index i
\* on (no piece is the start of another, so there is one reading)
RECURSIVE PiecesFrom(_, _)
PiecesFrom(text, i) ==
    IF i > Len(text) THEN <<>>
    ELSE LET piece == CHOOSE q \in ReadmePieces : StartsWithAt(text, i, q)
         IN  <<piece>> \o PiecesFrom(text, i + Len(piece))

ReadmeBefore == PiecesFrom(env.readme.text, 1)

Categories == {"Build Status", "Test Coverage", "Tests", "Version"}

BadgeKey(category) ==
    CASE category = "Build Status" -> "build"
      [] category = "Test Coverage" -> "coverage"
      [] category = "Tests" -> "tests"
      [] category = "Version" -> "version"

\* a complete inline badge link of the category: [![Category](url)](target)
IsBadgeLink(piece, category) ==
    /\ StartsWith(piece, "[![" \o category \o "](")
    /\ StartsWithAt(piece, Len(piece), ")")
    /\ Len(Split(piece, ")](")) = 2

NewLink(category) == "[![" \o category \o "](" \o badges[BadgeKey(category)] \o ")](#)"

\* the piece after the update when every badge link is replaced
Replaced(piece) ==
    IF \E c \in Categories : IsBadgeLink(piece, c)
    THEN NewLink(CHOOSE c \in Categories : IsBadgeLink(piece, c))
    ELSE piece

RECURSIVE Concat(_)
Concat(pieces) == IF pieces = <<>> THEN "" ELSE Head(pieces) \o Concat(Tail(pieces))

\* every badge link replaced, everything else as it was
AllReplaced(pieces) == Concat([i \in 1..Len(pieces) |-> Replaced(pieces[i])])

\* only the first badge link of each category replaced
FirstReplaced(pieces) ==
    Concat([i \in 1..Len(pieces) |->
                IF \E c \in Categories :
                        /\ IsBadgeLink(pieces[i], c)
                        /\ \A j \in 1..(i - 1) : ~IsBadgeLink(pieces[j], c)
                THEN Replaced(pieces[i])
                ELSE pieces[i]])

\* every piece that starts like a badge is a complete inline badge link
OnlyInlineLinks(pieces) ==
    \A i \in 1..Len(pieces) :
        StartsWith(pieces[i], "[![") => \E c \in Categories : IsBadgeLink(pieces[i], c)

\* C6 (as claimed): every badge link [![Category](old-url)](target) of the
\* README is replaced by [![Category](new-url)](#), and every character
\* outside the badge links is unchanged.
C6_LinksReplacedRestUnchanged ==
    ReadmeUpdated => disk.readme = AllReplaced(ReadmeBefore)

\* C9 (as claimed): of the links matching a category's pattern only the first is
\* replaced; the second and later ones are left as they were.
C9_OnlyFirstReplaced ==
    (ReadmeUpdated /\ OnlyInlineLinks(ReadmeBefore))
        => disk.readme = FirstReplaced(ReadmeBefore)

\* C9 (amended): every link matching a category's pattern is replaced, the
\* second and later ones like the first: in a README whose badges are all
\* complete inline links [![Category](url)](target), each of them becomes
\* [![Category](new-url)](#) and the rest is unchanged.
C9_EveryLinkReplaced ==
    (ReadmeUpdated /\ OnlyInlineLinks(ReadmeBefore))
        => disk.readme = AllReplaced(ReadmeBefore)

C9_Witness ==
    /\ ReadmeUpdated
    /\ ReadmeBefore = <<"[![Tests](old-url)](#)", " ", "[![Tests](old-url)](#)">>
    /\ disk.readme = NewLink("Tests") \o " " \o NewLink("Tests")
    /\ badges["tests"] = "https://img.shields.io/badge/tests-4%20tests-brightgreen.svg"

----------------------------------------------------------------------------
(* Properties of create_badge_url (SpecUrl).                               *)

\* one character, escaped on its own
EscapedChar(c) == IF c = "%" THEN "%25" ELSE IF c = " " THEN "%20" ELSE c

\* the string with each of its characters escaped exactly once
RECURSIVE EscapedOnce(_)
EscapedOnce(s) == IF s = "" THEN "" ELSE EscapedChar(Char(s, 1)) \o EscapedOnce(Tail(s))

NeedsEscape(s) == StrContains(s, "%") \/ StrContains(s, " ")

\* C7 (as claimed): encoding the already-escaped label and message again
\* yields the same URL as encoding once.
C7_EncodingTwiceIsEncodingOnce ==
    pc = "url_twice" => call.twice = call.once

\* C7 (amended): within one call each character of label and message is
\* escaped exactly once ("%" to "%25", " " to "%20", "%" replaced first); the
\* escaping is not idempotent: encoding the escaped label and message again
\* yields the same URL exactly when neither holds a "%" or a space.
C7_EscapedOnceNotIdempotent ==
    /\ pc \in {"url_once", "url_twice"} =>
        call.once = "https://img.shields.io/badge/" \o EscapedOnce(call.label) \o "-"
                        \o EscapedOnce(call.message) \o "-" \o call.color \o ".svg"
    /\ pc = "url_twice" =>
        /\ call.twice = call.once <=> ~(NeedsEscape(call.label) \/ NeedsEscape(call.message))
        /\ call.twice = "https://img.shields.io/badge/"
                            \o EscapedOnce(EscapedOnce(call.label)) \o "-"
                            \o EscapedOnce(EscapedOnce(call.message)) \o "-"
                            \o call.color \o ".svg"

C7_Witness ==
    /\ pc = "url_twice"
    /\ call.label = "% "
    /\ call.message = "2 %"
    /\ call.once = "https://img.shields.io/badge/%25%20-2%20%25-blue.svg"
    /\ call.twice = "https://img.shields.io/badge/%2525%2520-2%2520%2525-blue.svg"

====
